---- MODULE Spec2Model ----
(***************************************************************************)
(* botzilla, src/index.ts: the event filter and module dispatch of          *)
(* handleCommand, the module registry built by loadConfig, the startup     *)
(* sequence of createClient and the shutdown sequence of exitHandler.      *)
(*                                                                         *)
(* Every async function is cut at its awaits: one action runs the code     *)
(* from one suspension point to the next, which is what the single         *)
(* threaded event loop executes without interruption.  The transport       *)
(* (matrix-bot-sdk), the settings store and the module implementations     *)
(* are the environment: their answers are drawn with \E.                   *)
(*                                                                         *)
(* Strings that the code inspects (message bodies) are sequences of        *)
(* one-character strings; names that it only compares are TLA+ strings.    *)
(***************************************************************************)
EXTENDS Integers, Sequences, FiniteSets, Bags, TLC

\* ------------------------------------------------------------------ bounds
\* The clock (Date.now) and the events' origin_server_ts range over 0..MaxTime.
MaxTime == 2
\* Bodies of the body specification are all strings of at most MaxBodyLen characters.
MaxBodyLen == 4
\* handleCommand invocations that may be suspended at an await at the same time.
MaxTasks == 2
\* Termination signals delivered to the process.
MaxSignals == 2
\* Fields of its extra that one handler call assigns to.
MaxAssigns == 1

\* ------------------------------------------------------------- text model
NL == "\n"
\* The alphabet of bodies: the quote marker's two characters, the line
\* separator and one ordinary character.
Chars == {">", " ", NL, "a"}
\* String.prototype.trim's white space, restricted to Chars.
WhiteSpace == {" ", NL}
\* The quote marker "> " of line 105.
QuoteMarker == <<">", " ">>

AllBodies(n) == UNION {[1..k -> Chars] : k \in 0..n}

\* s.startsWith(p)
StartsWith(s, p) == Len(s) >= Len(p) /\ SubSeq(s, 1, Len(p)) = p

RECURSIVE TrimStart(_)
TrimStart(s) ==
  IF Len(s) > 0 /\ s[1] \in WhiteSpace THEN TrimStart(Tail(s)) ELSE s

RECURSIVE TrimEnd(_)
TrimEnd(s) ==
  IF Len(s) > 0 /\ s[Len(s)] \in WhiteSpace
    THEN TrimEnd(SubSeq(s, 1, Len(s) - 1))
    ELSE s

\* s.trim()
Trim(s) == TrimEnd(TrimStart(s))

\* s.split("\n"): always at least one line; "" splits into [""].
RECURSIVE Split(_)
Split(s) ==
  IF \E k \in 1..Len(s) : s[k] = NL
    THEN LET k == CHOOSE j \in 1..Len(s) :
                    s[j] = NL /\ \A h \in 1..(j - 1) : s[h] # NL
         IN  <<SubSeq(s, 1, k - 1)>> \o Split(SubSeq(s, k + 1, Len(s)))
    ELSE <<s>>

\* lines.join("\n"): [] joins to "".
RECURSIVE Join(_)
Join(lines) ==
  IF Len(lines) = 0 THEN <<>>
  ELSE IF Len(lines) = 1 THEN lines[1]
  ELSE lines[1] \o <<NL>> \o Join(Tail(lines))

\* Lines 103-106 without the test for blank lines.
IsQuoted(line) == StartsWith(line, QuoteMarker)

\* The loop condition of lines 103-106 on the first line.
IsQuotedOrBlank(line) == StartsWith(line, QuoteMarker) \/ Len(Trim(line)) = 0

\* Lines 103-108 with an if for the while: at most one line is shifted.
ShiftOne(lines) ==
  IF Len(lines) > 0 /\ IsQuotedOrBlank(lines[1]) THEN Tail(lines) ELSE lines

\* The while loop of lines 103-108: shift lines off the front.
RECURSIVE ShiftQuoted(_)
ShiftQuoted(lines) ==
  IF Len(lines) > 0 /\ IsQuotedOrBlank(lines[1])
    THEN ShiftQuoted(Tail(lines))
    ELSE lines

\* Lines 99-111: the body after the reply block; rel is the state of
\* content["m.relates_to"]: "none" (undefined), "other" (defined, without
\* m.in_reply_to) or "reply".
StripReply(body, rel) ==
  IF rel = "reply" THEN Join(ShiftQuoted(Split(body))) ELSE body

\* ------------------------------------------------------------ environment
Rooms == {"r1", "r2"}
\* client.getUserId() (line 115) and one other user.
BotUserId == "@bot"
Senders == {BotUserId, "@user"}
\* parseInt of an origin_server_ts that is no number (line 77); every
\* comparison with it is false.  Also startTime before line 66 has run.
NaN == -1
\* content.body when the event has none.
NoBody == <<"undefined">>
PresenceStates == {"online", "offline", "unavailable"}

\* What require("./modules/<name>") returns (line 40): whether the module
\* exports init, handler and help.
ModuleExports(m) ==
  CASE m = "admin" -> [init |-> TRUE,  handler |-> TRUE,  help |-> TRUE]
    [] m = "echo"  -> [init |-> FALSE, handler |-> TRUE,  help |-> FALSE]
    [] m = "ping"  -> [init |-> TRUE,  handler |-> TRUE,  help |-> TRUE]
    [] m = "stub"  -> [init |-> FALSE, handler |-> FALSE, help |-> FALSE]

\* Listings of the modules directory, in the order fs.readdir returns them,
\* with the ".js" suffix already cut off (lines 36-37).
DirPair == {<<"admin", "echo">>}
DirDispatch ==
  {<<"admin", "echo", "ping">>, <<"echo", "admin", "ping">>,
   <<"echo", "ping", "admin">>, <<"echo", "stub", "admin">>,
   <<"stub", "echo", "admin">>}

\* A room.message event as handleCommand reads it.
Event(c, ts, mt, b, rel, snd) ==
  [content |-> c, ts |-> ts, msgtype |-> mt, body |-> b, rel |-> rel,
   sender |-> snd]
NoEvent == Event(FALSE, NaN, "", NoBody, "none", "")

\* Events with content, of type text, with a body.
TextEvents(tss, bodies, rels) ==
  {Event(TRUE, ts, "m.text", b, rel, snd) :
     ts \in tss, b \in bodies, rel \in rels, snd \in Senders}

\* Events that fail one of the shape tests: no content, not text, no body,
\* an empty body.
OddEvents(tss) ==
  {Event(FALSE, ts, "", NoBody, "none", snd) : ts \in tss, snd \in Senders}
    \cup {Event(TRUE, ts, "m.image", <<"a">>, "none", snd) :
            ts \in tss, snd \in Senders}
    \cup {Event(TRUE, ts, "m.text", b, "none", snd) :
            ts \in tss, b \in {NoBody, <<>>}, snd \in Senders}

Stamps == 0..MaxTime

\* ------------------------------------------------------------------ state
VARIABLES
  now,           \* the last value Date.now() returned; the clock never runs backwards
  dir,           \* the listing of the modules directory
  mainPc,        \* where main/createClient/loadConfig is suspended
  loadIdx,       \* loadConfig: index in moduleNames of the module being initialised
  initCalls,     \* modules whose init was called, in call order (observation)
  handlers,      \* loadConfig's handlers, config.handlers after it returned
  handlerNames,  \* loadConfig's handlerNames, config.extra.handlerNames
  helpMessages,  \* loadConfig's helpMessages, config.extra.helpMessages
  configExtra,   \* config.extra (lines 56-61): per top-level field, whether it
                 \* holds what loadConfig built
  startTime,     \* makeHandleCommand's startTime (line 66)
  subscribed,    \* the events client.on was called for
  syncing,       \* the transport's sync loop runs (between start() and stop())
  roomJoinedAt,  \* the global of line 22: a map defined on the rooms joined so far
  CLIENT,        \* the global of line 20: "null" or "client"
  tasks,         \* bag of the handleCommand invocations suspended at an await
  last,          \* the handleCommand invocation that ended last, as it ended; forgotten
                 \* when the next invocation is suspended (observation)
  exits,         \* bag of the exitHandler invocations suspended at an await
  signals,       \* number of termination signals received so far
  trace,         \* the signals received and the transport operations called so
                 \* far, in order (observation)
  lastPoll,      \* the state the last getPresenceStatus returned
  exited         \* process.exit was called: "no" or the exit code as a string

vars ==
  <<now, dir, mainPc, loadIdx, initCalls, handlers, handlerNames,
    helpMessages, configExtra, startTime, subscribed, syncing, roomJoinedAt, CLIENT,
    tasks, last, exits, signals, trace, lastPoll, exited>>

loadVars ==
  <<loadIdx, initCalls, handlers, handlerNames, helpMessages, configExtra>>
mainVars == <<mainPc, startTime, subscribed>>
taskVars == <<tasks, last>>
exitVars == <<exits, signals, lastPoll, exited>>

\* The top-level fields of Extra (lines 56-61).  An Extra object is modelled
\* by what each field holds: "built" (what loadConfig put there),
\* "reassigned" (something a handler put there) or "undefined".
ExtraFields == {"handlerNames", "helpMessages", "owner", "logLevel"}
NoExtra == [f \in ExtraFields |-> "undefined"]
BuiltExtra == [f \in ExtraFields |-> "built"]

\* A handleCommand invocation: its locals (extra is the object of line 132
\* of the current iteration), and log, the record of what it did with each
\* module (observation).
Task(pc, room, event, body, i, log) ==
  [pc |-> pc, room |-> room, event |-> event, body |-> body, i |-> i,
   log |-> log, extra |-> NoExtra]
NoTask == Task("none", "", NoEvent, NoBody, 0, <<>>)

\* The empty object {} of line 22.
EmptyMap == [r \in {} |-> 0]

Init(dirs) ==
  /\ now = 0
  /\ dir \in dirs
  /\ mainPc = "readdir"
  /\ loadIdx = 0
  /\ initCalls = <<>>
  /\ handlers = <<>>
  /\ handlerNames = <<>>
  /\ helpMessages = EmptyMap
  /\ configExtra = NoExtra
  /\ startTime = NaN
  /\ subscribed = {}
  /\ syncing = FALSE
  /\ roomJoinedAt = EmptyMap
  /\ CLIENT = "null"
  /\ tasks = EmptyBag
  /\ last = NoTask
  /\ exits = EmptyBag
  /\ signals = 0
  /\ trace = <<>>
  /\ lastPoll = "none"
  /\ exited = "no"

Running == exited = "no"

\* ------------------------------------------------- loadConfig (lines 29-63)
DefaultHelp == "No help for this module."
HelpOf(m) == IF ModuleExports(m).help THEN "help of " \o m ELSE DefaultHelp

\* Line 45 with unshift for push.
RegisterFirst(hs, h) == <<h>> \o hs

\* Line 45: how a handler is added to the list.
Register(hs, h) == Append(hs, h)

\* Lines 44-49 for module m.
Registered(reg, m) ==
  [handlers |-> Register(reg.handlers,
                         [moduleName |-> m, handler |-> ModuleExports(m).handler]),
   handlerNames |-> Append(reg.handlerNames, m),
   helpMessages |-> [n \in DOMAIN reg.helpMessages \cup {m} |->
                       IF n = m THEN HelpOf(m) ELSE reg.helpMessages[n]]]

\* The loop of lines 39-50 from module k on, up to the next await: the
\* modules without init are registered at once; the loop stops at the first
\* module with an init (idx = its index) or at the end (idx = Len + 1).
RECURSIVE LoadFrom(_, _, _)
LoadFrom(names, k, reg) ==
  IF k > Len(names) THEN [idx |-> k, reg |-> reg]
  ELSE IF ModuleExports(names[k]).init THEN [idx |-> k, reg |-> reg]
  ELSE LoadFrom(names, k + 1, Registered(reg, names[k]))

LoadStep(k, reg) ==
  LET r == LoadFrom(dir, k, reg) IN
    /\ loadIdx' = r.idx
    /\ handlers' = r.reg.handlers
    /\ handlerNames' = r.reg.handlerNames
    /\ helpMessages' = r.reg.helpMessages
    /\ IF r.idx > Len(dir)
         \* loadConfig returns (lines 52-62); createClient runs to line 188
         THEN /\ mainPc' = "dbinit" /\ initCalls' = initCalls
              /\ configExtra' = BuiltExtra
         \* line 42: mod.init(config) is called
         ELSE /\ mainPc' = "init" /\ initCalls' = Append(initCalls, dir[r.idx])
              /\ configExtra' = configExtra

CurrentReg ==
  [handlers |-> handlers, handlerNames |-> handlerNames,
   helpMessages |-> helpMessages]

\* fsReadDir resolves (line 36).
ReadDirDone ==
  /\ Running /\ mainPc = "readdir"
  /\ LoadStep(1, CurrentReg)
  /\ UNCHANGED <<now, dir, startTime, subscribed, syncing, roomJoinedAt,
                 CLIENT, taskVars, exitVars, trace>>

\* mod.init(config) resolves (line 42).
InitResolve ==
  /\ Running /\ mainPc = "init"
  /\ LoadStep(loadIdx + 1, Registered(CurrentReg, dir[loadIdx]))
  /\ UNCHANGED <<now, dir, startTime, subscribed, syncing, roomJoinedAt,
                 CLIENT, taskVars, exitVars, trace>>

\* Line 42 with the failure of init swallowed: loadConfig returns.
InitFailedIgnored == "dbinit"

\* Line 42: where main is after the await of init threw: nowhere, the
\* rejection leaves loadConfig, createClient (line 151) and main (line 242).
InitFailed == "failed"

\* mod.init(config) rejects: loadConfig, createClient and main reject, and
\* the catch of line 246 logs the error.
InitReject ==
  /\ Running /\ mainPc = "init"
  /\ mainPc' = InitFailed
  /\ trace' = Append(trace, "init:rejected")
  /\ UNCHANGED <<now, dir, loadVars, startTime, subscribed, syncing,
                 roomJoinedAt, CLIENT, taskVars, exitVars>>

\* ----------------------------------------------- createClient (150-214)
\* Lines 198-209 with makeHandleCommand called after the subscription.
StartupStepsLate ==
  <<"on:room.join", "on:room.message", "startTime", "start">>

\* Lines 198-209 in the order they run: the argument of client.on in line
\* 205, the call of makeHandleCommand (line 66), is evaluated before the
\* subscription is made.
StartupSteps ==
  <<"on:room.join", "startTime", "on:room.message", "start">>

\* db.init resolves (line 188): lines 191-209 create the client, subscribe
\* to room.join and room.message (makeHandleCommand reads the clock: t) and
\* call client.start().
DbInitDone(t) ==
  /\ Running /\ mainPc = "dbinit"
  /\ t >= now /\ now' = t
  /\ startTime' = t
  /\ subscribed' = {"room.join", "room.message"}
  /\ syncing' = TRUE
  /\ trace' = trace \o StartupSteps
  /\ mainPc' = "starting"
  /\ UNCHANGED <<dir, loadVars, roomJoinedAt, CLIENT, taskVars, exitVars>>

\* client.start() resolves (line 209): lines 210-213.
StartDone ==
  /\ Running /\ mainPc = "starting"
  /\ CLIENT' = "client"
  /\ trace' = Append(trace, "setPresence:online")
  /\ mainPc' = "settingOnline"
  /\ UNCHANGED <<now, dir, loadVars, startTime, subscribed, syncing,
                 roomJoinedAt, taskVars, exitVars>>

\* setPresenceStatus("online") resolves (line 213): main returns.
OnlineDone ==
  /\ Running /\ mainPc = "settingOnline"
  /\ mainPc' = "done"
  /\ UNCHANGED <<now, dir, loadVars, startTime, subscribed, syncing,
                 roomJoinedAt, CLIENT, taskVars, exitVars, trace>>

\* The room.join callback (lines 198-201); t is what Date.now() returns.
RoomJoin(room, t) ==
  /\ Running /\ syncing /\ "room.join" \in subscribed
  /\ t >= now /\ now' = t
  /\ roomJoinedAt' = [r \in DOMAIN roomJoinedAt \cup {room} |->
                        IF r = room THEN t ELSE roomJoinedAt[r]]
  /\ UNCHANGED <<dir, loadVars, mainVars, syncing, CLIENT, taskVars,
                 exitVars, trace>>

\* ------------------------------------------- handleCommand (lines 67-147)
\* parseInt(event.origin_server_ts), line 77.
ParseInt(x) == IF x \in Nat THEN x ELSE NaN

\* a < b on JavaScript numbers: false when either is NaN.
Lt(a, b) == a # NaN /\ b # NaN /\ a < b

\* Line 78 with the comparison turned around.
BeforeStartSwapped(eventTime, st) == Lt(st, eventTime)

\* Line 78.
BeforeStart(eventTime, st) == Lt(eventTime, st)

\* Lines 81-84 with the comparison turned around.
BeforeJoinSwapped(eventTime, room, joinedAt) ==
  room \in DOMAIN joinedAt /\ Lt(joinedAt[room], eventTime)

\* Lines 81-84.
BeforeJoin(eventTime, room, joinedAt) ==
  room \in DOMAIN joinedAt /\ Lt(eventTime, joinedAt[room])

\* Lines 71-97: where the synchronous tests send the event: the reason it is
\* dropped for, or "pass".
SyncVerdict(room, e) ==
  IF ~e.content THEN "no_content"
  ELSE IF BeforeStart(ParseInt(e.ts), startTime) THEN "before_start"
  ELSE IF BeforeJoin(ParseInt(e.ts), room, roomJoinedAt) THEN "before_join"
  ELSE IF e.msgtype # "m.text" THEN "not_text"
  ELSE IF e.body = NoBody \/ Len(e.body) = 0 THEN "no_body"
  ELSE "pass"

\* Line 115 without the await: a promise is never equal to the sender.
IsSelfNoAwait(sender) == FALSE

\* Line 115.
IsSelf(sender) == sender = BotUserId

\* Line 119 trimming the front only.
FinalBodyTrimStart(body) == TrimStart(body)

\* Line 119: the body of the message.
FinalBody(body) == Trim(body)

\* Line 134 without the exemption.
IsGatedAlways(moduleName) == TRUE

\* Line 134: the modules the Settings Gate is asked about.
IsGated(moduleName) == moduleName # "admin"

\* Line 136 without the negation.
SkipsEnabled(enabled) == enabled

\* Line 136: whether the gate's answer skips the module.
Skips(enabled) == ~enabled

\* What is recorded of an invocation: the module, what happened, the body
\* of the message and the extra of the iteration at that point.
Logged(t, what) ==
  [t EXCEPT !.log = Append(t.log, <<handlers[t.i].moduleName, what, t.body,
                                    t.extra>>)]

\* Line 132 handing config.extra itself to the handlers.
AliasesExtra(shared) == TRUE

\* Line 132: Object.assign({}, config.extra) is a new object, so that a
\* write to a field of it is no write to config.extra.
Aliases(shared) == FALSE

\* Line 142 outside any try, for handlers[i]: the TypeError of calling an
\* undefined handler ends handleCommand.
InvokeUncaught(t, i) ==
  IF handlers[i].handler
    THEN Logged([t EXCEPT !.pc = "handler", !.i = i, !.extra = configExtra],
                "call")
    ELSE [Logged([t EXCEPT !.i = i, !.extra = configExtra], "typeerror")
            EXCEPT !.pc = "failed"]

RECURSIVE RunLoop(_, _)
\* Line 142 for handlers[i]: the call of the handler.  Calling an undefined
\* handler throws a TypeError inside the try, which the catch logs.
Invoke(t, i) ==
  IF handlers[i].handler
    THEN Logged([t EXCEPT !.pc = "handler", !.i = i, !.extra = configExtra],
                "call")
    ELSE RunLoop(Logged([t EXCEPT !.i = i, !.extra = configExtra],
                        "typeerror"), i + 1)

\* The for loop of lines 131-146 from handlers[i] on, up to the next await:
\* at the gate's lookup (line 135), in a handler (line 142), or returned.
RunLoop(t, i) ==
  IF i > Len(handlers) THEN [t EXCEPT !.pc = "returned", !.i = i]
  ELSE IF IsGated(handlers[i].moduleName)
    THEN [t EXCEPT !.pc = "gate", !.i = i]
    ELSE Invoke(t, i)

\* Line 142 outside any try: the failure ends handleCommand.
AfterThrowUncaught(t) == [t EXCEPT !.pc = "failed"]

\* Lines 143-145: the catch block, and the loop going on.
AfterThrow(t) == RunLoop(t, t.i + 1)

\* Line 135 inside the try of lines 141-145: the rejection is caught and
\* the loop goes on.
AfterGateRejectCaught(t) == RunLoop(t, t.i + 1)

\* Line 135: the await of the lookup throws in no try, handleCommand rejects.
AfterGateReject(t) == [t EXCEPT !.pc = "failed"]

\* Line 142 never getting past the await.
AfterReturnStuck(t) == t

\* Falling out of the try after the handler's promise resolved.
AfterReturn(t) == RunLoop(t, t.i + 1)

EndCodes ==
  {"no_content", "before_start", "before_join", "not_text", "no_body",
   "self", "empty", "returned", "failed"}

One(t) == SetToBag({t})
Suspended(pc) == {t \in BagToSet(tasks) : t.pc = pc}

\* Continue behind a lock that a handler call holds for the whole process:
\* t goes on only when no other invocation awaits a handler.
ContinueLocked(t, t2) ==
  /\ \A u \in BagToSet(tasks (-) One(t)) : u.pc # "handler"
  /\ IF t2.pc \in EndCodes
       THEN tasks' = tasks (-) One(t) /\ last' = t2
       ELSE tasks' = (tasks (-) One(t)) (+) One(t2) /\ last' = last

\* Invocation t goes on as t2: suspended again, or ended.
Continue(t, t2) ==
  IF t2.pc \in EndCodes
    THEN tasks' = tasks (-) One(t) /\ last' = t2
    ELSE tasks' = (tasks (-) One(t)) (+) One(t2) /\ last' = last

\* The transport emits room.message: handleCommand runs to its first await,
\* the call of client.getUserId() (line 115), unless it returns before.
RoomMessage(room, e, cap) ==
  /\ Running /\ syncing /\ "room.message" \in subscribed
  /\ LET v == SyncVerdict(room, e) IN
       IF v = "pass"
         THEN /\ BagCardinality(tasks) < cap
              /\ tasks' = tasks (+) One(Task("userid", room, e,
                                             StripReply(e.body, e.rel), 0, <<>>))
              /\ last' = NoTask
         ELSE /\ tasks' = tasks
              /\ last' = Task(v, room, e, NoBody, 0, <<>>)
  /\ UNCHANGED <<now, dir, loadVars, mainVars, syncing, roomJoinedAt, CLIENT,
                 exitVars, trace>>

\* client.getUserId() resolves: lines 115-135/142.
UserIdResolve ==
  /\ Running
  /\ \E t \in Suspended("userid") :
       IF IsSelf(t.event.sender) THEN Continue(t, [t EXCEPT !.pc = "self"])
       ELSE LET m == [t EXCEPT !.body = FinalBody(t.body)] IN
              IF Len(m.body) = 0 THEN Continue(t, [m EXCEPT !.pc = "empty"])
              ELSE Continue(t, RunLoop(m, 1))
  /\ UNCHANGED <<now, dir, loadVars, mainVars, syncing, roomJoinedAt, CLIENT,
                 exitVars, trace>>

\* settings.isModuleEnabled resolves (line 135).
GateResolve(enabled) ==
  /\ Running
  /\ \E t \in Suspended("gate") :
       LET g == Logged(t, IF enabled THEN "enabled" ELSE "disabled") IN
         IF Skips(enabled) THEN Continue(t, RunLoop(g, t.i + 1))
         ELSE Continue(t, Invoke(g, t.i))
  /\ UNCHANGED <<now, dir, loadVars, mainVars, syncing, roomJoinedAt, CLIENT,
                 exitVars, trace>>

\* settings.isModuleEnabled rejects: nothing catches it, handleCommand rejects.
GateReject ==
  /\ Running
  /\ \E t \in Suspended("gate") :
       Continue(t, AfterGateReject(Logged(t, "gate_rejected")))
  /\ UNCHANGED <<now, dir, loadVars, mainVars, syncing, roomJoinedAt, CLIENT,
                 exitVars, trace>>

\* The handler's promise resolves (line 142).
HandlerReturn ==
  /\ Running
  /\ \E t \in Suspended("handler") :
       Continue(t, AfterReturn(Logged(t, "returned")))
  /\ UNCHANGED <<now, dir, loadVars, mainVars, syncing, roomJoinedAt, CLIENT,
                 exitVars, trace>>

\* The handler throws or its promise rejects (line 142).
HandlerThrow ==
  /\ Running
  /\ \E t \in Suspended("handler") :
       Continue(t, AfterThrow(Logged(t, "threw")))
  /\ UNCHANGED <<now, dir, loadVars, mainVars, syncing, roomJoinedAt, CLIENT,
                 exitVars, trace>>

\* A handler that was called and has not settled assigns to the top-level
\* field f of the extra it was handed (line 142).
HandlerAssigns(f) ==
  /\ Running
  /\ \E t \in Suspended("handler") :
       /\ Cardinality({g \in ExtraFields : t.extra[g] = "reassigned"}) < MaxAssigns
       /\ t.extra[f] # "reassigned"
       /\ tasks' = (tasks (-) One(t))
                      (+) One([t EXCEPT !.extra[f] = "reassigned"])
       /\ configExtra' = IF Aliases(configExtra)
                           THEN [configExtra EXCEPT ![f] = "reassigned"]
                           ELSE configExtra
  /\ UNCHANGED <<now, dir, loadIdx, initCalls, handlers, handlerNames,
                 helpMessages, mainVars, syncing, roomJoinedAt, CLIENT, last,
                 exitVars, trace>>

\* ------------------------------------------- exitHandler (lines 256-286)
SignalNames == {"SIGINT", "SIGHUP", "SIGQUIT", "SIGTERM"}

\* Line 262 left out.
NotTaken(client) == client

\* Line 262: what CLIENT holds after exitHandler took the client.
Taken(client) == "null"

\* A termination signal: exitHandler up to its first await, wait(1000).
Signal(sig) ==
  /\ Running /\ signals < MaxSignals
  /\ signals' = signals + 1
  /\ IF CLIENT = "null"
       THEN /\ trace' = Append(trace, "signal")
            /\ UNCHANGED <<CLIENT, syncing, exits>>
       ELSE /\ CLIENT' = Taken(CLIENT)
            /\ syncing' = FALSE
            /\ trace' = trace \o <<"signal", "stop">>
            /\ exits' = exits (+) SetToBag({"wait1000"})
  /\ UNCHANGED <<now, dir, loadVars, mainVars, roomJoinedAt, taskVars,
                 lastPoll, exited>>

ExitMoves(from, to) ==
  /\ BagIn(from, exits)
  /\ exits' = (exits (-) SetToBag({from})) (+) SetToBag({to})

\* wait(1000) is over: setPresenceStatus("offline") is called (line 268).
GraceOver ==
  /\ Running
  /\ ExitMoves("wait1000", "setOffline")
  /\ trace' = Append(trace, "setPresence:offline")
  /\ UNCHANGED <<now, dir, loadVars, mainVars, syncing, roomJoinedAt, CLIENT,
                 taskVars, signals, lastPoll, exited>>

\* setPresenceStatus("offline") resolves: getPresenceStatus is called (271).
OfflineDone ==
  /\ Running
  /\ ExitMoves("setOffline", "poll")
  /\ UNCHANGED <<now, dir, loadVars, mainVars, syncing, roomJoinedAt, CLIENT,
                 taskVars, signals, lastPoll, exited, trace>>

\* Line 272 leaving the loop whatever the poll returned.
LeavesLoopAlways(presence) == TRUE

\* Line 272 leaving the loop on "offline" only.
LeavesLoopOffline(presence) == presence = "offline"

\* Line 272: the test that leaves the poll loop.
LeavesLoop(presence) == presence # "online"

\* getPresenceStatus resolves with state p: lines 271-279.
PollDone(p) ==
  /\ Running
  /\ lastPoll' = p
  /\ IF LeavesLoop(p)
       THEN /\ BagIn("poll", exits)
            /\ exits' = exits (-) SetToBag({"poll"})
            /\ exited' = "0"
       ELSE /\ ExitMoves("poll", "wait11000")
            /\ exited' = exited
  /\ UNCHANGED <<now, dir, loadVars, mainVars, syncing, roomJoinedAt, CLIENT,
                 taskVars, signals, trace>>

\* wait(11000) is over: the loop polls again (line 271).
PollAgain ==
  /\ Running
  /\ ExitMoves("wait11000", "poll")
  /\ UNCHANGED <<now, dir, loadVars, mainVars, syncing, roomJoinedAt, CLIENT,
                 taskVars, signals, lastPoll, exited, trace>>

\* ---------------------------------------------------------- specifications
\* The environments differ from one specification to the next (the events
\* the transport delivers, the clock, the listing of the modules directory);
\* the program's actions are the same.
Load == ReadDirDone \/ InitResolve \/ InitReject

Dispatch ==
  \/ UserIdResolve
  \/ \E b \in BOOLEAN : GateResolve(b)
  \/ GateReject
  \/ HandlerReturn
  \/ HandlerThrow

AnyStamp == Stamps \cup {NaN}
\* A time stamp no start or join time of the model is later than.
Late == MaxTime
Plain == <<"a">>

\* SpecFilter: every shape of event with every time stamp, rooms joined at
\* any time, the clock free; one invocation at a time.
FilterEvents == TextEvents(AnyStamp, {Plain}, {"none"}) \cup OddEvents(AnyStamp)

NextFilter ==
  \/ Load
  \/ \E t \in Stamps : DbInitDone(t)
  \/ StartDone
  \/ OnlineDone
  \/ \E r \in Rooms, t \in Stamps : RoomJoin(r, t)
  \/ tasks = EmptyBag /\ \E r \in Rooms, e \in FilterEvents : RoomMessage(r, e, 1)
  \/ Dispatch

SpecFilter == Init(DirPair) /\ [][NextFilter]_vars

\* SpecDispatch: the dispatch loop over every listing of DirDispatch, with
\* up to MaxTasks invocations in flight; the events are well-formed and
\* recent, the clock stands still and the events arrive after startup.
DispatchEvents == TextEvents({Late}, {Plain}, {"none"})

NextDispatch ==
  \/ Load
  \/ DbInitDone(0)
  \/ StartDone
  \/ OnlineDone
  \/ mainPc = "done" /\ \E r \in Rooms, e \in DispatchEvents : RoomMessage(r, e, MaxTasks)
  \/ Dispatch

SpecDispatch == Init(DirDispatch) /\ [][NextDispatch]_vars

\* SpecBody: what handleCommand makes of a body: the first message the
\* started bot receives is any text event whose body is any string of at
\* most MaxBodyLen characters, or one of the examples.
ExampleBodies ==
  {<<">", " ", "a", NL, ">", " ", "a", NL, NL, "a">>,
   <<" ", " ", "a", " ", " ">>}
Relations == {"none", "other", "reply"}
BodyEvents ==
  TextEvents({Late}, AllBodies(MaxBodyLen) \cup ExampleBodies, Relations)

NextBody ==
  \/ Load
  \/ DbInitDone(0)
  \/ StartDone
  \/ OnlineDone
  \/ /\ mainPc = "done" /\ tasks = EmptyBag /\ last = NoTask
     /\ \E e \in BodyEvents : RoomMessage("r1", e, 1)
  \/ Dispatch

SpecBody == Init(DirPair) /\ [][NextBody]_vars

\* Spec: the life of the process: startup, signals at any moment and the
\* shutdown they start, next to one plain message at a time.
Shutdown ==
  \/ \E sig \in SignalNames : Signal(sig)
  \/ GraceOver
  \/ OfflineDone
  \/ \E p \in PresenceStates : PollDone(p)
  \/ PollAgain

Next ==
  \/ Load
  \/ DbInitDone(0)
  \/ StartDone
  \/ OnlineDone
  \/ \E r \in Rooms : RoomJoin(r, 0)
  \/ tasks = EmptyBag /\ \E e \in DispatchEvents : RoomMessage("r1", e, 1)
  \/ Dispatch
  \/ Shutdown

Spec == Init(DirPair) /\ [][Next]_vars

\* SpecLive: Spec where the timers of wait(1000) and wait(11000) fire and
\* the presence operations of the transport answer (they neither fail nor
\* hang); what the polls answer is left open.
ExitFairness ==
  /\ WF_vars(GraceOver)
  /\ WF_vars(OfflineDone)
  /\ WF_vars(\E p \in PresenceStates : PollDone(p))
  /\ WF_vars(PollAgain)

SpecLive == Init(DirPair) /\ [][Next]_vars /\ ExitFairness

\* SpecStartup: the startup over every listing of DirDispatch, with signals
\* and with whatever the transport delivers whenever it can deliver it:
\* room.join and room.message are held back by nothing but the program.
StartupEvents == TextEvents({Late}, {Plain}, {"none"})

NextStartup ==
  \/ Load
  \/ \E t \in Stamps : DbInitDone(t)
  \/ StartDone
  \/ OnlineDone
  \/ \E r \in Rooms : RoomJoin(r, now)
  \/ tasks = EmptyBag /\ \E e \in StartupEvents : RoomMessage("r1", e, 1)
  \/ Dispatch
  \/ Shutdown

SpecStartup == Init(DirDispatch) /\ [][NextStartup]_vars

\* SpecHang: two messages, A in room r1 and, while the handling of A awaits
\* a handler, B in room r2.  What the handling of B awaits settles (weak
\* fairness of the steps that leave the invocations of r1 alone); nothing is
\* assumed of what the handling of A awaits, which may never settle.
RoomA == "r1"
RoomB == "r2"
InRoom(r) == {t \in BagToSet(tasks) : t.room = r}

NextHang ==
  \/ Load
  \/ DbInitDone(0)
  \/ StartDone
  \/ OnlineDone
  \/ /\ tasks = EmptyBag /\ last = NoTask
     /\ \E e \in DispatchEvents : RoomMessage(RoomA, e, 1)
  \/ /\ InRoom(RoomB) = {} /\ last = NoTask
     /\ \E t \in InRoom(RoomA) : t.pc = "handler"
     /\ \E e \in DispatchEvents : RoomMessage(RoomB, e, MaxTasks)
  \/ Dispatch

LeavesRoomA ==
  \A t \in InRoom(RoomA) : CopiesIn(t, tasks') = CopiesIn(t, tasks)

SpecHang ==
  Init(DirDispatch) /\ [][NextHang]_vars /\ WF_vars(Dispatch /\ LeavesRoomA)

\* SpecExtra: handlers that assign to the fields of the extra they were
\* handed, with one message in flight in each room.
NextExtra ==
  \/ Load
  \/ DbInitDone(0)
  \/ StartDone
  \/ OnlineDone
  \/ /\ mainPc = "done"
     /\ \E r \in Rooms, e \in DispatchEvents :
          InRoom(r) = {} /\ RoomMessage(r, e, Cardinality(Rooms))
  \/ Dispatch
  \/ \E f \in ExtraFields : HandlerAssigns(f)

SpecExtra == Init(DirPair) /\ [][NextExtra]_vars

\* ------------------------------------------------------------------ claims
Live == BagToSet(tasks)
\* The invocations that got past the synchronous tests: the suspended ones,
\* and the last one if it ended after an await.
PastAwait(t) == t.pc \in {"self", "empty", "returned", "failed"}
Dispatched(t) == t.log # <<>> \/ t.pc \in {"gate", "handler", "returned", "failed"}
WellFormed(e) ==
  e.content /\ e.msgtype = "m.text" /\ e.body # NoBody /\ Len(e.body) > 0

\* C1: an event whose time stamp is less than the start time is dropped by
\* the synchronous tests: no invocation is ever suspended for it, none ends
\* after an await for it, and nothing is logged for it (no gate lookup, no
\* handler call), whatever else the event holds.
C1_ReplaySuppressed ==
  /\ \A t \in Live : t.event.ts \in Nat => t.event.ts >= startTime
  /\ (last.pc # "none" /\ last.event.ts \in Nat /\ last.event.ts < startTime)
       => /\ last.pc \in {"no_content", "before_start"}
          /\ last.log = <<>>

\* An otherwise well-formed event from another user, in a joined room, was
\* dropped for being older than the start time.
C1_Witness ==
  /\ last.pc = "before_start"
  /\ last.event.ts \in Nat /\ last.event.ts < startTime
  /\ WellFormed(last.event) /\ last.event.sender # BotUserId
  /\ last.room \in DOMAIN roomJoinedAt

C3_SelfNeverDispatched ==
  /\ \A t \in Live :
       t.event.sender = BotUserId => t.pc = "userid" /\ t.log = <<>>
  /\ (last.pc # "none" /\ last.event.sender = BotUserId)
       => ~Dispatched(last)

\* A well-formed, recent event of the bot itself passed the synchronous
\* tests and was dropped after getUserId resolved.
C3_Witness ==
  /\ last.pc = "self"
  /\ last.event.sender = BotUserId
  /\ WellFormed(last.event)
  /\ last.event.ts \in Nat /\ last.event.ts >= startTime
  /\ Len(handlers) > 0

\* The invocations to look at: the suspended ones and the one that ended last.
Seen == Live \cup (IF last.pc = "none" THEN {} ELSE {last})
\* The entries of t's log about module m.
Has(t, m, what) == \E k \in 1..Len(t.log) : t.log[k][1] = m /\ t.log[k][2] = what
Count(t, m, what) ==
  Cardinality({k \in 1..Len(t.log) : t.log[k][1] = m /\ t.log[k][2] = what})
\* An accepted message: the invocation got past the tests of lines 115-122.
Accepted(t) == t.pc \in {"gate", "handler", "returned", "failed"}
\* Position of module m in config.handlers, 0 when it is not registered.
PosOf(m) ==
  IF \E i \in 1..Len(handlers) : handlers[i].moduleName = m
    THEN CHOOSE i \in 1..Len(handlers) : handlers[i].moduleName = m
    ELSE 0
NeverGated(t, m) ==
  /\ ~Has(t, m, "enabled") /\ ~Has(t, m, "disabled") /\ ~Has(t, m, "gate_rejected")
  /\ ~(t.pc = "gate" /\ handlers[t.i].moduleName = m)

\* C4 as stated: the gate is never asked about admin, and every accepted
\* message whose handling ended has had the admin handler invoked.
C4_AsStated ==
  \A t \in Seen :
    /\ NeverGated(t, "admin")
    /\ (t.pc \in {"returned", "failed"} /\ PosOf("admin") > 0)
         => Has(t, "admin", "call")

\* C4, amended: the gate is never asked about admin, and the admin handler
\* is invoked, whatever the gate answered for the other modules, for every
\* accepted message whose dispatch loop reached admin's position (it has
\* passed it, or returned): the loop does not reach it when the gate lookup
\* of a module registered before admin rejects.
C4_AdminExempt ==
  \A t \in Seen :
    /\ NeverGated(t, "admin")
    /\ (Accepted(t) /\ PosOf("admin") > 0
          /\ (t.i > PosOf("admin") \/ t.pc = "returned"
                \/ (t.i = PosOf("admin") /\ t.pc # "failed")))
         => Count(t, "admin", "call") = 1

\* The dispatch of a message returned with admin invoked although the gate
\* had answered "disabled" for a module registered before it.
C4_Witness ==
  /\ last.pc = "returned"
  /\ Has(last, "echo", "disabled")
  /\ PosOf("echo") < PosOf("admin")
  /\ Has(last, "admin", "call")

NonAdmin == {i \in 1..Len(handlers) : handlers[i].moduleName # "admin"}

\* C5: for every accepted message, a non-admin handler is invoked if and only
\* if the gate answered true for its module, and at most once; a module the
\* gate answered false for is not invoked; when the dispatch returned, the
\* gate has answered once for every non-admin module.
C5_GateExact ==
  \A t \in Seen : \A i \in NonAdmin :
    LET m == handlers[i].moduleName IN
      /\ handlers[i].handler =>
           (Has(t, m, "call") <=> Has(t, m, "enabled"))
      /\ Has(t, m, "disabled") => ~Has(t, m, "call")
      /\ Count(t, m, "call") <= 1
      /\ t.pc = "returned" =>
           Count(t, m, "enabled") + Count(t, m, "disabled") = 1

\* Two non-admin modules, one enabled and one disabled for the room: the
\* dispatch returned having invoked exactly the enabled one of the two.
C5_Witness ==
  /\ last.pc = "returned"
  /\ Has(last, "echo", "enabled") /\ Has(last, "echo", "call")
  /\ Has(last, "ping", "disabled") /\ ~Has(last, "ping", "call")

\* Module j is enabled for the message of t, or is admin.
Due(t, j) ==
  /\ handlers[j].handler
  /\ handlers[j].moduleName = "admin" \/ Has(t, handlers[j].moduleName, "enabled")

\* C6 as stated: once a handler threw, every handler registered after it
\* that is admin or enabled has been invoked when the handling of the
\* message ended, and the handling did not end on the handler's failure.
C6_AsStated ==
  \A t \in Seen :
    /\ t.pc = "failed" => t.log[Len(t.log)][2] # "threw"
    /\ \A i \in 1..Len(handlers) :
         (Has(t, handlers[i].moduleName, "threw")
            /\ t.pc \in {"returned", "failed"})
           => \A j \in (i + 1)..Len(handlers) :
                Due(t, j) => Has(t, handlers[j].moduleName, "call")

\* C6, amended: a handler that throws never makes handleCommand fail (it
\* fails only on a gate lookup that rejects) nor the process exit, the loop
\* goes on to the next module, and when the dispatch returned, every handler
\* registered after the one that threw that is admin or enabled has been
\* invoked, with the same body.
C6_FailureIsolated ==
  /\ exited = "no"
  /\ \A t \in Seen :
       /\ t.pc = "failed" => t.log[Len(t.log)][2] = "gate_rejected"
       /\ \A k \in 1..Len(t.log) : t.log[k][3] = t.body
       /\ \A i \in 1..Len(handlers) :
            Has(t, handlers[i].moduleName, "threw") =>
              /\ t.i > i
              /\ t.pc = "returned" =>
                   \A j \in (i + 1)..Len(handlers) :
                     Due(t, j) => Has(t, handlers[j].moduleName, "call")

\* A handler threw and the dispatch returned having invoked a handler
\* registered after it.
C6_Witness ==
  /\ last.pc = "returned"
  /\ \E i \in 1..Len(handlers) : \E j \in (i + 1)..Len(handlers) :
       /\ Has(last, handlers[i].moduleName, "threw")
       /\ Has(last, handlers[j].moduleName, "call")

\* Position of module m in config.extra.handlerNames, 0 when it is not there.
NamePos(m) ==
  IF \E i \in 1..Len(handlerNames) : handlerNames[i] = m
    THEN CHOOSE i \in 1..Len(handlerNames) : handlerNames[i] = m
    ELSE 0

\* C7: loadConfig registers the modules in the order of the listing, the
\* handlers in the order of handlerNames; for every message the handlers are
\* called in that order, and a call is followed in the log by its own return
\* or failure before anything else happens for the message: the one call
\* without it is the last entry, of the handler the invocation is awaiting.
C7_OrderedSequential ==
  /\ handlerNames = SubSeq(dir, 1, Len(handlerNames))
  /\ Len(handlers) = Len(handlerNames)
  /\ \A i \in 1..Len(handlers) : handlers[i].moduleName = handlerNames[i]
  /\ \A t \in Seen :
       /\ \A k1, k2 \in 1..Len(t.log) :
            (k1 < k2 /\ t.log[k1][2] = "call" /\ t.log[k2][2] = "call")
              => NamePos(t.log[k1][1]) < NamePos(t.log[k2][1])
       /\ \A k \in 1..Len(t.log) :
            t.log[k][2] = "call" =>
              IF k = Len(t.log)
                THEN t.pc = "handler" /\ handlerNames[t.i] = t.log[k][1]
                ELSE /\ t.log[k + 1][1] = t.log[k][1]
                     /\ t.log[k + 1][2] \in {"returned", "threw"}
       /\ t.pc = "handler" =>
            Len(t.log) > 0 /\ t.log[Len(t.log)][2] = "call"

\* A dispatch returned after three handlers were called one after the other.
C7_Witness ==
  /\ last.pc = "returned"
  /\ Cardinality({k \in 1..Len(last.log) : last.log[k][2] = "call"}) = 3

\* -------------------------------------------------- claims about the body
OnlyWhite(b) == \A k \in 1..Len(b) : b[k] \in WhiteSpace
Clean(b) == Len(b) > 0 /\ b[1] \notin WhiteSpace /\ b[Len(b)] \notin WhiteSpace

\* The lines of b as the pairs <<first, last>> of their positions (an empty
\* line has last = first - 1).
LinesOf(b) ==
  {p \in (1..(Len(b) + 1)) \X (0..Len(b)) :
     /\ p[2] >= p[1] - 1
     /\ p[1] = 1 \/ b[p[1] - 1] = NL
     /\ p[2] = Len(b) \/ b[p[2] + 1] = NL
     /\ \A k \in p[1]..p[2] : b[k] # NL}
\* The line starts with "> ", or holds nothing but white space.
QuoteOrBlank(b, p) ==
  \/ p[2] >= p[1] + 1 /\ b[p[1]] = ">" /\ b[p[1] + 1] = " "
  \/ \A k \in p[1]..p[2] : b[k] \in WhiteSpace
\* The lines that are kept: from the first one that is neither on.
Kept(b) == {p \in LinesOf(b) : \E q \in LinesOf(b) : q[1] <= p[1] /\ ~QuoteOrBlank(b, q)}
\* The reference of the reply stripping: the body from its first kept line on.
RefStrip(b) ==
  IF Kept(b) = {} THEN <<>>
  ELSE LET first == CHOOSE p \in Kept(b) : \A q \in Kept(b) : p[1] <= q[1]
       IN  SubSeq(b, first[1], Len(b))
\* The reference of trim: from the first to the last character that is no
\* white space.
RefTrim(b) ==
  IF OnlyWhite(b) THEN <<>>
  ELSE LET ink == {k \in 1..Len(b) : b[k] \notin WhiteSpace}
           lo == CHOOSE k \in ink : \A h \in ink : k <= h
           hi == CHOOSE k \in ink : \A h \in ink : k >= h
       IN  SubSeq(b, lo, hi)
Expected(e) == RefTrim(IF e.rel = "reply" THEN RefStrip(e.body) ELSE e.body)

\* C8: every body handed to a handler (and to the gate's side of the loop)
\* is non-empty and neither starts nor ends with white space; an event whose
\* body is only white space, or a reply whose lines are all quoted or blank,
\* is never accepted and nothing is logged for it.
C8_BodyClean ==
  \A t \in Seen :
    /\ \A k \in 1..Len(t.log) : Clean(t.log[k][3])
    /\ Accepted(t) => Clean(t.body)
    /\ (t.event.content /\ t.event.body # NoBody /\
          \/ OnlyWhite(t.event.body)
          \/ t.event.rel = "reply" /\
               \A p \in LinesOf(t.event.body) : QuoteOrBlank(t.event.body, p))
         => ~Accepted(t) /\ t.log = <<>>

\* A reply of another user that holds a quoted line and a blank line was
\* dropped after the reply block was stripped.
C8_Witness ==
  /\ last.pc = "empty"
  /\ last.event.rel = "reply"
  /\ last.event.body = <<">", " ", "a", NL>>
  /\ last.event.sender # BotUserId

\* C9: the body handed to the handlers is the reference: for a reply, the
\* body from its first line that is neither quoted nor blank on (later
\* quoted lines included), trimmed; without the reply marker, the body
\* trimmed; and the event is dropped as empty exactly when that is "".
C9_StripMatchesReference ==
  \A t \in Seen :
    /\ Accepted(t) =>
         /\ t.body = Expected(t.event)
         /\ \A k \in 1..Len(t.log) : t.log[k][3] = Expected(t.event)
    /\ t.pc \in {"gate", "handler", "returned", "failed", "empty"} =>
         (t.pc = "empty" <=> Expected(t.event) = <<>>)

\* The example of the specification ("> a\n> a\n\na" as a reply) was handed
\* to a handler as "a".
C9_Witness ==
  /\ last.pc = "returned"
  /\ last.event.rel = "reply"
  /\ last.event.body = <<">", " ", "a", NL, ">", " ", "a", NL, NL, "a">>
  /\ Has(last, "admin", "call")
  /\ last.log[1][3] = <<"a">>

\* ------------------------------------------------- claims about shutdown
Occurrences(seq, x) == Cardinality({k \in 1..Len(seq) : seq[k] = x})

\* C10: whatever signals arrive and whenever, stop() and
\* setPresenceStatus("offline") are each called at most once and at most one
\* exitHandler is suspended; and a signal that finds CLIENT null changes
\* nothing of the program (only the count and the record of signals).
C10_ShutdownOnce ==
  /\ [](/\ Occurrences(trace, "stop") <= 1
        /\ Occurrences(trace, "setPresence:offline") <= 1
        /\ BagCardinality(exits) <= 1)
  /\ [][(signals' # signals /\ CLIENT = "null")
          => /\ UNCHANGED <<now, dir, loadVars, mainVars, syncing,
                            roomJoinedAt, CLIENT, taskVars, exits, lastPoll,
                            exited>>
             /\ trace' = Append(trace, "signal")]_vars

\* A second signal arrived while the exitHandler of the first was suspended
\* in wait(1000), and did nothing.
C10_Witness ==
  /\ Len(trace) > 1
  /\ trace[Len(trace)] = "signal"
  /\ trace[Len(trace) - 1] = "stop"
  /\ exits = SetToBag({"wait1000"})
  /\ CLIENT = "null"

\* ----------------------------------------------- claims about termination
\* An exitHandler took the client and has not reached process.exit.
ShuttingDown == exits # EmptyBag

\* C11: after a signal that found an active client, the process has exited,
\* with code 0, exactly when a poll has reported a state other than
\* "online"; until then exitHandler gets to a poll again and again: so the
\* process exits if and only if some poll reports another state, and if
\* every poll reports "online" it never exits and polls for ever.
C11_ShutdownLiveness ==
  /\ [](exited \in {"no", "0"})
  /\ [](exited = "0" <=> lastPoll \in PresenceStates \ {"online"})
  /\ [](ShuttingDown => <>(lastPoll \in PresenceStates))
  /\ []<>(~ShuttingDown \/ BagIn("poll", exits))
  /\ []([](lastPoll \in {"none", "online"}) => [](exited = "no"))

\* A poll reported "online", exitHandler waits to poll again, and the
\* process has not exited.
C11_Witness ==
  /\ exits = SetToBag({"wait11000"})
  /\ lastPoll = "online"
  /\ exited = "no"
  /\ CLIENT = "null"

\* -------------------------------------------------- claims about startup
InitRejected == Occurrences(trace, "init:rejected") > 0
\* The modules of the listing up to position k that export an init.
WithInit(k) == {j \in 1..k : dir[j] \in {"admin", "ping"}}

\* C12: once the init of a module rejected, the init of no later module is
\* ever called (the inits called are those of the listing up to the module
\* that failed, and stay so), start() is never called, nothing is
\* subscribed, presence is never set to online, CLIENT is null, no start
\* time is taken, and no message is handled: no invocation of handleCommand
\* is suspended or has ended, so that no handler was invoked.
C12_InitFailureFatal ==
  /\ [](InitRejected =>
          /\ mainPc = "failed"
          /\ Len(initCalls) = Cardinality(WithInit(loadIdx))
          /\ initCalls[Len(initCalls)] = dir[loadIdx]
          /\ Occurrences(trace, "start") = 0
          /\ Occurrences(trace, "on:room.join") = 0
          /\ Occurrences(trace, "on:room.message") = 0
          /\ Occurrences(trace, "setPresence:online") = 0
          /\ subscribed = {} /\ ~syncing
          /\ CLIENT = "null" /\ startTime = NaN
          /\ roomJoinedAt = EmptyMap
          /\ tasks = EmptyBag /\ last = NoTask)
  /\ [][InitRejected => initCalls' = initCalls /\ mainPc' = mainPc]_vars

\* The init of the first module of the listing rejected, a module with an
\* init comes later in the listing, and a signal arrived afterwards.
C12_Witness ==
  /\ InitRejected
  /\ initCalls = <<"admin">>
  /\ dir = <<"admin", "echo", "ping">>
  /\ trace[Len(trace)] = "signal"

\* ---------------------------------------------- claims about concurrency
\* Calls of t that have not settled: calls less returns and failures.
Outstanding(t) ==
  Cardinality({k \in 1..Len(t.log) : t.log[k][2] = "call"})
    - Cardinality({k \in 1..Len(t.log) : t.log[k][2] \in {"returned", "threw"}})

\* C13 as stated: while the handling of one event is not completed, the
\* handling of no other event has begun.
C13_AsStated == BagCardinality(tasks) <= 1

\* C13, amended: handleCommand runs to completion from one await to the
\* next only: every step begins, advances or ends one invocation and leaves
\* the others as they are, and the handler invocations of one event never
\* overlap (an invocation has one call that has not settled while it awaits
\* a handler, and none otherwise); invocations for different events may be
\* suspended at the same time.
C13_RunToAwait ==
  /\ [](\A t \in Seen : Outstanding(t) = IF t.pc = "handler" THEN 1 ELSE 0)
  /\ [][/\ BagCardinality(tasks (-) tasks') <= 1
         /\ BagCardinality(tasks' (-) tasks) <= 1
         /\ BagCardinality(tasks') <= BagCardinality(tasks) + 1]_vars

\* Two events are being handled at once, each awaiting a handler that was
\* called for it: the handler invocations of the two events interleave.
C13_Witness ==
  /\ BagCardinality(tasks) = 2
  /\ \A t \in Live : t.pc = "handler" /\ Outstanding(t) = 1
  /\ \E t \in Live : Has(t, "echo", "returned")

FirstAt(seq, x) ==
  IF \E k \in 1..Len(seq) : seq[k] = x
    THEN CHOOSE k \in 1..Len(seq) : seq[k] = x /\ \A h \in 1..(k - 1) : seq[h] # x
    ELSE 0
Polling == BagIn("poll", exits) \/ BagIn("wait11000", exits)

\* C15: whenever an exitHandler is suspended at an await CLIENT is null
\* already; setPresenceStatus("offline") is called only after stop(); a
\* poll is made or answered only after setPresenceStatus("offline") was
\* called and has resolved; the process has exited only if the most
\* recent poll returned a state other than "online", and exitHandler is the
\* one way to exit.
C15_ShutdownOrder ==
  /\ exits # EmptyBag => CLIENT = "null" /\ FirstAt(trace, "stop") > 0
  /\ FirstAt(trace, "setPresence:offline") > 0 =>
       /\ FirstAt(trace, "stop") > 0
       /\ FirstAt(trace, "stop") < FirstAt(trace, "setPresence:offline")
  /\ BagIn("wait1000", exits) => FirstAt(trace, "setPresence:offline") = 0
  /\ (Polling \/ lastPoll # "none") =>
       /\ FirstAt(trace, "setPresence:offline") > 0
       /\ ~BagIn("wait1000", exits) /\ ~BagIn("setOffline", exits)
  /\ exited # "no" =>
       /\ lastPoll \in PresenceStates \ {"online"}
       /\ exits = EmptyBag /\ CLIENT = "null"
  /\ lastPoll = "online" => exited = "no"

\* The process exited on a poll that returned "unavailable", after stop()
\* and setPresenceStatus("offline"), with a signal ignored in between.
C15_Witness ==
  /\ exited = "0" /\ lastPoll = "unavailable"
  /\ Occurrences(trace, "signal") = 2
  /\ trace[Len(trace)] = "setPresence:offline"

StartCompleted == mainPc \in {"settingOnline", "done"}

\* C16: makeHandleCommand takes the start time before room.message is
\* subscribed, the subscription is made before start() is called, each
\* once; presence is set to online, and CLIENT is the client, only after
\* start() resolved; whenever a message is or was handled the start time
\* is fixed; and once fixed the start time never changes.
C16_StartupOrder ==
  /\ [](/\ Occurrences(trace, "startTime") <= 1
        /\ Occurrences(trace, "on:room.message") <= 1
        /\ Occurrences(trace, "start") <= 1
        /\ "room.message" \in subscribed =>
             /\ FirstAt(trace, "on:room.message") > 0
             /\ FirstAt(trace, "startTime") > 0
             /\ FirstAt(trace, "startTime") < FirstAt(trace, "on:room.message")
             /\ startTime \in Nat
        /\ FirstAt(trace, "start") > 0 =>
             /\ FirstAt(trace, "on:room.message") > 0
             /\ FirstAt(trace, "on:room.message") < FirstAt(trace, "start")
        /\ FirstAt(trace, "setPresence:online") > 0 =>
             /\ StartCompleted
             /\ FirstAt(trace, "start") > 0
             /\ FirstAt(trace, "start") < FirstAt(trace, "setPresence:online")
        /\ CLIENT # "null" => StartCompleted
        /\ (tasks # EmptyBag \/ last # NoTask) =>
             startTime \in Nat /\ FirstAt(trace, "startTime") > 0)
  /\ [][startTime # NaN => startTime' = startTime]_vars

\* A message was handled to the end while start() was still pending: the
\* start time was fixed, at a time later than 0, CLIENT is still null and
\* presence is not set yet.
C16_Witness ==
  /\ mainPc = "starting"
  /\ last.pc = "returned"
  /\ startTime > 0
  /\ CLIENT = "null"
  /\ Occurrences(trace, "setPresence:online") = 0

\* ------------------------------------ claims about the reply stripping
\* b is empty, or its first line neither starts with "> " nor is blank.
AlreadyStripped(b) ==
  b = <<>> \/ \A p \in LinesOf(b) : p[1] = 1 => ~QuoteOrBlank(b, p)
\* The invocations of replies that hold the stripped body, not trimmed yet.
Stripped == {t \in Live : t.pc = "userid" /\ t.event.rel = "reply"}

\* C17: what the stripping of lines 99-111 returns is already stripped (it
\* is empty, or its first line is neither quoted nor blank); stripping it
\* again returns it unchanged; and a body that was already stripped when it
\* arrived is returned unchanged.
C17_StripIdempotent ==
  \A t \in Stripped :
    /\ AlreadyStripped(t.body)
    /\ StripReply(t.body, "reply") = t.body
    /\ AlreadyStripped(t.event.body) => t.body = t.event.body

\* The stripping removed two quoted lines and a blank one from a reply, and
\* kept the rest.
C17_Witness ==
  \E t \in Stripped :
    /\ t.event.body = <<">", " ", "a", NL, ">", " ", "a", NL, NL, "a">>
    /\ t.body = <<"a">>
    /\ StripReply(t.body, "reply") = <<"a">>

\* ----------------------------------------------------- claims about Extra
\* C18: whatever the handlers assign to the top-level fields of the extra
\* they were handed, config.extra holds what loadConfig built, and every
\* handler is called with an extra whose top-level fields hold what
\* loadConfig built: the copy of one invocation is not that of another, for
\* the same or for another message.
C18_ExtraIsolated ==
  /\ mainPc \in {"dbinit", "starting", "settingOnline", "done"}
       => configExtra = BuiltExtra
  /\ \A t \in Seen : \A k \in 1..Len(t.log) :
       t.log[k][2] = "call" => t.log[k][4] = BuiltExtra

\* A handler returned having reassigned a field of its extra, and the
\* next handler was called for the same message with the fields as built,
\* while another message is being handled.
C18_Witness ==
  /\ last.pc = "returned"
  /\ \E k \in 1..(Len(last.log) - 1) :
       /\ last.log[k][2] = "returned"
       /\ \E f \in ExtraFields : last.log[k][4][f] = "reassigned"
       /\ last.log[k + 1][2] \in {"call", "enabled"}
  /\ \E k \in 1..Len(last.log) :
       /\ last.log[k][1] = "echo" /\ last.log[k][2] = "call"
       /\ last.log[k][4] = BuiltExtra
  /\ \E t \in Live : t.pc = "handler" /\ t.extra # BuiltExtra

\* ------------------------------------ claims about failures in the loop
\* The modules of the listing that export no handler.
Absent == {j \in 1..Len(handlers) : ~handlers[j].handler}
LoadDone == mainPc \in {"dbinit", "starting", "settingOnline", "done"}

\* C19 as stated: once the call of an absent handler failed for a message,
\* every handler registered after it that is admin or enabled has been
\* invoked when the handling of the message ended.
C19_AsStated ==
  \A t \in Seen : \A a \in Absent :
    (Has(t, handlers[a].moduleName, "typeerror")
       /\ t.pc \in {"returned", "failed"})
      => \A j \in (a + 1)..Len(handlers) :
           Due(t, j) => Has(t, handlers[j].moduleName, "call")

\* C19, amended: a module without a handler is registered like any other
\* and startup fails on a rejected init only; nothing is ever recorded of a
\* handler of that module (no call that is awaited, no return, no failure
\* of its own) and no invocation ever awaits it; the call of the absent
\* handler is made only when the gate answered true for the module, fails,
\* is caught and does not make handleCommand fail; the loop goes on, and
\* when the dispatch returned every handler registered after it that is
\* admin or that the gate answered true for has been invoked.
C19_AbsentTolerated ==
  /\ mainPc = "failed" => InitRejected
  /\ LoadDone => \A j \in 1..Len(dir) :
                    /\ handlers[j].moduleName = dir[j]
                    /\ handlers[j].handler = (dir[j] # "stub")
  /\ \A t \in Seen :
       /\ t.pc = "handler" => t.i \notin Absent
       /\ t.pc = "failed" => t.log[Len(t.log)][2] = "gate_rejected"
       /\ \A a \in Absent :
            LET m == handlers[a].moduleName IN
              /\ ~Has(t, m, "call") /\ ~Has(t, m, "returned")
              /\ ~Has(t, m, "threw")
              /\ Has(t, m, "typeerror") =>
                   /\ Has(t, m, "enabled") /\ Count(t, m, "typeerror") = 1
                   /\ t.i > a
                   /\ t.pc = "returned" =>
                        \A j \in (a + 1)..Len(handlers) :
                          Due(t, j) => Has(t, handlers[j].moduleName, "call")

\* The gate answered true for the module without a handler, the call
\* failed, and the dispatch returned after the two handlers registered after
\* it were invoked.
C19_Witness ==
  /\ last.pc = "returned"
  /\ dir = <<"stub", "echo", "admin">>
  /\ Has(last, "stub", "typeerror")
  /\ Has(last, "echo", "returned") /\ Has(last, "admin", "returned")

\* C20: when the gate's lookup rejects for the module at position N,
\* handleCommand fails there and then: the rejection is the last thing that
\* happens for the message, neither the handler at N nor any handler after
\* it (admin included) is invoked and no later lookup is made, while every
\* module before N has been dealt with (skipped as disabled, or called and
\* settled); and the step that fails one invocation ends that invocation
\* and changes nothing else: not the other invocations, not the program's
\* state, and the process does not exit.
C20_GateFailureAborts ==
  /\ [](\A t \in Seen : \A k \in 1..Len(t.log) :
          t.log[k][2] = "gate_rejected" =>
            LET n == NamePos(t.log[k][1]) IN
              /\ t.pc = "failed" /\ t.i = n /\ k = Len(t.log)
              /\ t.log[k][1] # "admin"
              /\ \A j \in n..Len(handlers) :
                   LET m == handlers[j].moduleName IN
                     /\ ~Has(t, m, "call") /\ ~Has(t, m, "typeerror")
                     /\ ~Has(t, m, "enabled") /\ ~Has(t, m, "disabled")
              /\ \A j \in 1..(n - 1) :
                   LET m == handlers[j].moduleName IN
                     \/ Has(t, m, "disabled")
                     \/ Has(t, m, "typeerror")
                     \/ Has(t, m, "call") /\
                          (Has(t, m, "returned") \/ Has(t, m, "threw")))
  /\ [](exited = "no")
  /\ [][(last'.pc = "failed" /\ last' # last) =>
          /\ BagCardinality(tasks') = BagCardinality(tasks) - 1
          /\ \A u \in BagToSet(tasks') : CopiesIn(u, tasks') <= CopiesIn(u, tasks)
          /\ UNCHANGED <<now, dir, loadVars, mainVars, syncing, roomJoinedAt,
                         CLIENT, exitVars, trace>>]_vars

\* The lookup rejected for the second module of the listing after the
\* first had run, admin is registered after it and was not invoked, and the
\* handling of another message goes on.
C20_Witness ==
  /\ last.pc = "failed" /\ last.i = 2
  /\ Has(last, handlers[1].moduleName, "returned")
  /\ PosOf("admin") = 3 /\ ~Has(last, "admin", "call")
  /\ \E u \in Live : u.pc = "handler" /\ u.i = 3

====
